---- MODULE Spec2Model ----
(***************************************************************************)
(* Model of otbv-cpp: the octree codec for 3-D boolean volumes            *)
(* (src/src/conversion.cpp) and the OTBV container writer and reader       *)
(* (src/src/io.cpp).                                                       *)
(*                                                                         *)
(* A vector3<bool> is a record [res, cells]: res is the triple of axis     *)
(* lengths and cells the set of coordinates <<x, y, z>> (0-based) whose    *)
(* value is true; every other coordinate inside res is false.  A           *)
(* std::vector<bool> is a sequence over {0, 1}.  A file is a sequence of   *)
(* bytes 0..255.  A thrown exception is an err field that is not "none".   *)
(***************************************************************************)
EXTENDS Integers, Sequences, FiniteSets, TLC

(***************************************************************************)
(* Bounds of the model                                                     *)
(***************************************************************************)
\* largest axis length of the exhaustively enumerated volumes
MaxDim == 3
\* largest cell count of the exhaustively enumerated volumes
MaxCells == 6
\* largest argument handed to pow2_roof by the stepwise run of its loop
MaxNumber == 70
\* longest run of branch tokens in a hand-made encoding
MaxOnes == 22
\* longest tail of arbitrary bits in a hand-made encoding or raw payload
MaxTail == 2
\* saturation point of the size_t cell-count product (only compared to 0, 2)
SizeCap == 1000000
\* a run of the codec makes at most 2^LogMaxCalls recursive calls
LogMaxCalls == 10
\* longest bit sequence handed to stream_data_as_file_bytes for its packing
MaxRun == 9

(***************************************************************************)
(* Program constants                                                       *)
(***************************************************************************)
RECURSION_MAX_DEPTH == 20
MAX_RESOLUTION == 100000
\* "OTBV\x96"
SIGNATURE == <<79, 84, 66, 86, 150>>

(***************************************************************************)
(* Unsigned arithmetic helpers (operators of C++ used by the source)       *)
(***************************************************************************)
Max(a, b) == IF a >= b THEN a ELSE b

RECURSIVE Pow2(_)
Pow2(k) == IF k = 0 THEN 1 ELSE 2 * Pow2(k - 1)

\* a >> s on an unsigned value; every value of the model is below 2^31, so
\* a shift by more than 30 bits leaves 0
ShiftR(a, s) == IF s > 30 THEN 0 ELSE a \div Pow2(s)

RECURSIVE BitAnd(_, _)
BitAnd(a, b) ==
    IF a = 0 \/ b = 0 THEN 0
    ELSE (a % 2) * (b % 2) + 2 * BitAnd(a \div 2, b \div 2)

RECURSIVE BitOr(_, _)
BitOr(a, b) ==
    IF a = 0 THEN b
    ELSE IF b = 0 THEN a
    ELSE Max(a % 2, b % 2) + 2 * BitOr(a \div 2, b \div 2)

(***************************************************************************)
(* pow2_roof (conversion.cpp 20-31)                                        *)
(***************************************************************************)
\* !(number & (number - 1)); number - 1 wraps to all ones for number = 0,
\* and 0 & anything is 0
pow2_is_exact(number) ==
    IF number = 0 THEN TRUE ELSE BitAnd(number, number - 1) = 0

\* number |= (number >> shift)
pow2_smear_bad(number, shift) == BitOr(number, ShiftR(number, shift + 1))

pow2_smear(number, shift) == BitOr(number, ShiftR(number, shift))

\* the do-while loop: returns val + 1 once an iteration leaves number unchanged
RECURSIVE pow2_loop(_, _)
pow2_loop(number, shift) ==
    LET val  == number
        next == pow2_smear(number, shift)
    IN  IF next > val THEN pow2_loop(next, shift * 2) ELSE val + 1

pow2_roof(number) ==
    IF pow2_is_exact(number) THEN number ELSE pow2_loop(number, 1)

max_res_pow2_roof(x_res, y_res, z_res) ==
    pow2_roof(Max(Max(x_res, y_res), z_res))

(***************************************************************************)
(* Volumes (vector3<bool>, conversion.h 7)                                 *)
(***************************************************************************)
\* size_t product, exact below SizeCap and saturated there
SatMul(a, b) ==
    IF a = 0 \/ b = 0 THEN 0
    ELSE IF a > SizeCap \div b THEN SizeCap
    ELSE a * b

Box(xs, xe, ys, ye, zs, ze) ==
    {<<x, y, z>> : x \in xs..(xe - 1), y \in ys..(ye - 1), z \in zs..(ze - 1)}

InBox(c, xs, xe, ys, ye, zs, ze) ==
    /\ xs <= c[1] /\ c[1] < xe
    /\ ys <= c[2] /\ c[2] < ye
    /\ zs <= c[3] /\ c[3] < ze

\* data[x][y][z]
At(data, x, y, z) == <<x, y, z>> \in data.cells

\* size(data) (conversion.cpp 126-133)
size(data) == SatMul(SatMul(data.res[1], data.res[2]), data.res[3])

subvolume_size(xs, xe, ys, ye, zs, ze) ==
    SatMul(SatMul(xe - xs, ye - ys), ze - zs)

\* a scan that takes only a single cell for homogeneous
is_subvolume_homogeneous_bad(data, xs, xe, ys, ye, zs, ze) ==
    subvolume_size(xs, xe, ys, ye, zs, ze) < 2

\* the scan for a cell that differs from the first one
is_subvolume_homogeneous(data, xs, xe, ys, ye, zs, ze) ==
    IF subvolume_size(xs, xe, ys, ye, zs, ze) < 2 THEN TRUE
    ELSE IF At(data, xs, ys, zs)
         THEN \A x \in xs..(xe - 1) : \A y \in ys..(ye - 1) :
                 \A z \in zs..(ze - 1) : At(data, x, y, z)
         ELSE \A c \in data.cells : ~InBox(c, xs, xe, ys, ye, zs, ze)

\* resize of all three axes; new cells are false, cut cells are dropped
cut_volume(volume, x_res, y_res, z_res) ==
    [res   |-> <<x_res, y_res, z_res>>,
     cells |-> {c \in volume.cells : InBox(c, 0, x_res, 0, y_res, 0, z_res)}]

\* pad_to_cube (conversion.cpp 189-202); callers check size(data) # 0 first
pad_to_cube(data) ==
    LET max_res == max_res_pow2_roof(data.res[1], data.res[2], data.res[3])
    IN  [res |-> <<max_res, max_res, max_res>>, cells |-> data.cells]

pad_to_cube_throws(data) == size(data) = 0

EmptyVolume == [res |-> <<0, 0, 0>>, cells |-> {}]

(***************************************************************************)
(* The recursion of the codec                                              *)
(* The call stack of encode_recursive and decode_recursive is explicit: a  *)
(* sequence of pending calls <<xs, xe, ys, ye, zs, ze, depth>>, the next   *)
(* one to run first.  One application of encode_recursive or               *)
(* decode_recursive below runs the body of the call on top of the stack;   *)
(* the calls it makes are pushed in the order of its loops, so they run    *)
(* depth first, each before the later siblings of its caller.  An          *)
(* exception (err other than "none") ends the run.                         *)
(***************************************************************************)
\* the calls of the three nested loops, x outer, y middle, z inner, low half
\* before high half; x_split is <<xs, middle, xe>>
octant_calls(x_split, y_split, z_split, depth) ==
    [n \in 1..8 |->
        LET i == (n - 1) \div 4
            j == ((n - 1) \div 2) % 2
            k == (n - 1) % 2
        IN  << x_split[i + 1], x_split[i + 2],
               y_split[j + 1], y_split[j + 2],
               z_split[k + 1], z_split[k + 2], depth >>]

\* the result of a run that the model cut short is marked
finished(st) ==
    IF st.stack # <<>> /\ st.err = "none"
    THEN [st EXCEPT !.err = "ModelBound"]
    ELSE st

(***************************************************************************)
(* encode (conversion.cpp 135-187)                                         *)
(* The state enc is [stack, bits, err, deepest]: the pending calls, the    *)
(* encoding so far, the exception in flight, and the deepest depth that    *)
(* passed the depth check.                                                 *)
(***************************************************************************)
encode_depth_exceeded_bad(depth) == depth > RECURSION_MAX_DEPTH + 1

encode_depth_exceeded(depth) == depth > RECURSION_MAX_DEPTH

\* the recursive calls of encode_recursive
encode_octants(xs, xe, ys, ye, zs, ze, depth) ==
    octant_calls(<<xs, ShiftR(xe + xs, 1), xe>>, <<ys, ShiftR(ye + ys, 1), ye>>,
                 <<zs, ShiftR(ze + zs, 1), ze>>, depth + 1)

\* the body of the call on top of the stack
encode_recursive(data, enc) ==
    LET call == Head(enc.stack)
        xs == call[1]
        xe == call[2]
        ys == call[3]
        ye == call[4]
        zs == call[5]
        ze == call[6]
        depth == call[7]
        rest  == Tail(enc.stack)
    IN  CASE encode_depth_exceeded(depth) ->
                [enc EXCEPT !.err = "RecursionLimit"]
          [] ~encode_depth_exceeded(depth)
             /\ subvolume_size(xs, xe, ys, ye, zs, ze) = 0 ->
                [enc EXCEPT !.err = "InvalidArgument",
                            !.deepest = Max(@, depth)]
          [] ~encode_depth_exceeded(depth)
             /\ subvolume_size(xs, xe, ys, ye, zs, ze) # 0
             /\ is_subvolume_homogeneous(data, xs, xe, ys, ye, zs, ze) ->
                \* leaf
                [enc EXCEPT !.bits = @ \o <<0, IF At(data, xs, ys, zs)
                                               THEN 1 ELSE 0>>,
                            !.deepest = Max(@, depth),
                            !.stack = rest]
          [] OTHER ->
                [enc EXCEPT !.bits = Append(@, 1),
                            !.deepest = Max(@, depth),
                            !.stack = encode_octants(xs, xe, ys, ye, zs, ze,
                                                     depth) \o rest]

\* runs the pending calls until the stack is empty or an exception is in
\* flight, at most 2^k of them
RECURSIVE encode_calls(_, _, _)
encode_calls(data, enc, k) ==
    IF enc.stack = <<>> \/ enc.err # "none" THEN enc
    ELSE IF k = 0 THEN encode_recursive(data, enc)
    ELSE encode_calls(data, encode_calls(data, enc, k - 1), k - 1)

\* the result is [bits, err, deepest]
encode(data) ==
    LET resolution == data.res[1]
        out == finished(encode_calls(data,
                   [stack |-> << <<0, resolution, 0, resolution,
                                   0, resolution, 0>> >>,
                    bits |-> <<>>, err |-> "none", deepest |-> 0],
                   LogMaxCalls))
    IN  [bits |-> out.bits, err |-> out.err, deepest |-> out.deepest]

(***************************************************************************)
(* decode (conversion.cpp 235-296)                                         *)
(* The state st is [stack, cells, next_idx, err, deepest, oob]: the        *)
(* pending calls, the true cells of out, the cursor, the exception in      *)
(* flight, the deepest depth that passed the depth check, and whether      *)
(* encoding[i] was read with i >= encoding.size().                         *)
(***************************************************************************)
decode_depth_exceeded(depth) == depth > RECURSION_MAX_DEPTH

\* a check that lets the cursor reach encoding.size()
at_end_bad(encoding, next_idx) == next_idx > Len(encoding)

\* next_idx >= encoding.size()
at_end(encoding, next_idx) == next_idx >= Len(encoding)

\* encoding[i], 0-based; a read past the end yields an arbitrary bit, here 0
read_bit(encoding, i) == IF i < Len(encoding) THEN encoding[i + 1] ELSE 0

set_range(cells, value, xs, xe, ys, ye, zs, ze) ==
    IF value = 1
    THEN cells \cup Box(xs, xe, ys, ye, zs, ze)
    ELSE {c \in cells : ~InBox(c, xs, xe, ys, ye, zs, ze)}

\* a decoder that replays the octants z outer, x inner
decode_octants_bad(xs, xe, ys, ye, zs, ze, depth) ==
    [n \in 1..8 |->
        LET c == octant_calls(<<zs, (zs + ze) \div 2, ze>>,
                              <<ys, (ys + ye) \div 2, ye>>,
                              <<xs, (xs + xe) \div 2, xe>>, depth + 1)[n]
        IN  <<c[5], c[6], c[3], c[4], c[1], c[2], c[7]>>]

\* the recursive calls of decode_recursive
decode_octants(xs, xe, ys, ye, zs, ze, depth) ==
    octant_calls(<<xs, (xs + xe) \div 2, xe>>, <<ys, (ys + ye) \div 2, ye>>,
                 <<zs, (zs + ze) \div 2, ze>>, depth + 1)

\* the body of the call on top of the stack
decode_recursive(encoding, st) ==
    LET call == Head(st.stack)
        xs == call[1]
        xe == call[2]
        ys == call[3]
        ye == call[4]
        zs == call[5]
        ze == call[6]
        depth == call[7]
        rest  == Tail(st.stack)
        token == read_bit(encoding, st.next_idx)
    IN  CASE decode_depth_exceeded(depth) ->
                [st EXCEPT !.err = "RecursionLimit"]
          [] ~decode_depth_exceeded(depth)
             /\ at_end(encoding, st.next_idx) ->
                [st EXCEPT !.err = "OutOfRange", !.deepest = Max(@, depth)]
          [] ~decode_depth_exceeded(depth)
             /\ ~at_end(encoding, st.next_idx)
             /\ token = 0 ->
                \* leaf
                IF at_end(encoding, st.next_idx + 1)
                THEN [st EXCEPT !.err = "OutOfRange",
                                !.deepest = Max(@, depth),
                                !.oob = @ \/ st.next_idx >= Len(encoding),
                                !.next_idx = @ + 1]
                ELSE [st EXCEPT
                        !.cells = set_range(@,
                                      read_bit(encoding, st.next_idx + 1),
                                      xs, xe, ys, ye, zs, ze),
                        !.oob = @ \/ st.next_idx + 1 >= Len(encoding),
                        !.deepest = Max(@, depth),
                        !.next_idx = @ + 2,
                        !.stack = rest]
          [] OTHER ->
                [st EXCEPT !.oob = @ \/ st.next_idx >= Len(encoding),
                           !.deepest = Max(@, depth),
                           !.next_idx = @ + 1,
                           !.stack = decode_octants(xs, xe, ys, ye, zs, ze,
                                                    depth) \o rest]

\* runs the pending calls until the stack is empty or an exception is in
\* flight, at most 2^k of them
RECURSIVE decode_calls(_, _, _)
decode_calls(encoding, st, k) ==
    IF st.stack = <<>> \/ st.err # "none" THEN st
    ELSE IF k = 0 THEN decode_recursive(encoding, st)
    ELSE decode_calls(encoding, decode_calls(encoding, st, k - 1), k - 1)

\* decode; ndebug tells whether the build compiles assert() out.  The result
\* is [vol, cube, err, end_idx, deepest, oob]: vol is the return value,
\* meaningful when err = "none", and cube the cells of out before the last cut.
decode(encoding, resolution, ndebug) ==
    LET decoding_res ==
            max_res_pow2_roof(resolution[1], resolution[2], resolution[3])
        out == cut_volume(EmptyVolume, decoding_res, decoding_res, decoding_res)
        st  == finished(decode_calls(encoding,
                   [stack |-> << <<0, decoding_res, 0, decoding_res,
                                   0, decoding_res, 0>> >>,
                    cells |-> out.cells, next_idx |-> 0, err |-> "none",
                    deepest |-> 0, oob |-> FALSE],
                   LogMaxCalls))
        end_idx == st.next_idx
        err == IF st.err # "none" THEN st.err
               ELSE IF ~ndebug /\ end_idx # Len(encoding)
                    THEN "AssertionFailed"
               ELSE "none"
    IN  [vol     |-> IF err = "none"
                     THEN cut_volume([res |-> out.res, cells |-> st.cells],
                                     resolution[1], resolution[2], resolution[3])
                     ELSE EmptyVolume,
         cube    |-> st.cells,
         err     |-> err,
         end_idx |-> end_idx,
         deepest |-> st.deepest,
         oob     |-> st.oob]

(***************************************************************************)
(* Container writer (io.cpp 20-64)                                         *)
(***************************************************************************)
\* a uint32_t as the four bytes the host writes, least significant first
LE32(v) ==
    << v % 256, (v \div 256) % 256, (v \div 65536) % 256,
       (v \div 16777216) % 256 >>

\* pad_len = rem == 0 ? 0 : 8 - rem
pad_len_of(data) ==
    LET rem == Len(data) % 8 IN IF rem = 0 THEN 0 ELSE 8 - rem

\* meta_first = (pad_len << 5) | (padded << 4)
meta_first_of(pad_len, padded) == pad_len * 32 + (IF padded THEN 16 ELSE 0)

\* the byte packed from data_out[i .. i+7], most significant bit first
pack_byte(data_out, i) ==
    data_out[i + 1] * 128 + data_out[i + 2] * 64 + data_out[i + 3] * 32
    + data_out[i + 4] * 16 + data_out[i + 5] * 8 + data_out[i + 6] * 4
    + data_out[i + 7] * 2 + data_out[i + 8]

\* a writer that repeats the x field when the flag is clear
header_resolution_cubic(resolution, padded) ==
    << resolution[1],
       IF padded THEN resolution[2] ELSE resolution[1],
       IF padded THEN resolution[3] ELSE resolution[1] >>

\* a writer that leaves the y and z fields out whatever the flag says
header_resolution_bad(resolution, padded) ==
    << resolution[1], 0, 0 >>

\* meta_res_x, meta_res_y, meta_res_z
header_resolution(resolution, padded) ==
    << resolution[1],
       IF padded THEN resolution[2] ELSE 0,
       IF padded THEN resolution[3] ELSE 0 >>

stream_data_as_file_bytes(data, resolution, padded) ==
    LET pad_len       == pad_len_of(data)
        meta_first    == meta_first_of(pad_len, padded)
        meta_res      == header_resolution(resolution, padded)
        meta_data_len == (Len(data) + pad_len) \div 8
        data_out      == [i \in 1..pad_len |-> 0] \o data
    IN  SIGNATURE \o <<meta_first>>
        \o LE32(meta_res[1]) \o LE32(meta_res[2]) \o LE32(meta_res[3])
        \o LE32(meta_data_len)
        \o [b \in 1..(Len(data_out) \div 8) |-> pack_byte(data_out, 8 * (b - 1))]

(***************************************************************************)
(* Container reader (io.cpp 92-150)                                        *)
(* Whether plain char is signed is the build's choice (char_signed).       *)
(***************************************************************************)
\* the value of a byte held in a char
as_char(b, char_signed) == IF char_signed /\ b >= 128 THEN b - 256 ELSE b

\* 255 when OR-ing the promoted char sets every higher bit, else 0
sign_bits(b, char_signed) == IF char_signed /\ b >= 128 THEN 255 ELSE 0

\* pack_chars: val |= c[0]; val |= c[1] << 8; ...  as the bytes of the
\* uint32_t result, least significant first (two's complement shifts)
pack_chars(c, char_signed) ==
    LET e0 == sign_bits(c[1], char_signed)
        e1 == Max(e0, sign_bits(c[2], char_signed))
        e2 == Max(e1, sign_bits(c[3], char_signed))
    IN  << c[1], BitOr(c[2], e0), BitOr(c[3], e1), BitOr(c[4], e2) >>

\* a uint32_t given by its bytes is above limit (limit < 2^31)
U32Above(u, limit) ==
    \/ u[4] >= 128
    \/ u[1] + 256 * u[2] + 65536 * u[3] + 16777216 * u[4] > limit

\* the value of a uint32_t given by its bytes, when it is below 2^31
U32Value(u) == u[1] + 256 * u[2] + 65536 * u[3] + 16777216 * u[4]

\* padding_length = meta_buffer[0] >> 5, an arithmetic shift of the char
padding_length_of(meta0, char_signed) == as_char(meta0, char_signed) \div 32

\* is_padded = (meta_buffer[0] >> 4) & 1
is_padded_of(meta0, char_signed) ==
    (as_char(meta0, char_signed) \div 16) % 2 = 1

\* a check that forgets the z axis
resolution_exceeds_bad(x_res, y_res, z_res) ==
    U32Above(x_res, MAX_RESOLUTION) \/ U32Above(y_res, MAX_RESOLUTION)

\* x_res > MAX_RESOLUTION || y_res > MAX_RESOLUTION || z_res > MAX_RESOLUTION
resolution_exceeds(x_res, y_res, z_res) ==
    \/ U32Above(x_res, MAX_RESOLUTION)
    \/ U32Above(y_res, MAX_RESOLUTION)
    \/ U32Above(z_res, MAX_RESOLUTION)

\* the eight bits of a payload byte, (data_buffer[i] >> j) & 1 for j = 7..0
unpack_byte(b) ==
    [k \in 1..8 |-> (b \div Pow2(8 - k)) % 2]

RECURSIVE unpack(_)
unpack(data_buffer) ==
    IF data_buffer = <<>> THEN <<>>
    ELSE unpack_byte(Head(data_buffer)) \o unpack(Tail(data_buffer))

(***************************************************************************)
(* State                                                                   *)
(***************************************************************************)
VARIABLES
    build,   \* [char_signed, ndebug]: the choices of the build
    file,    \* [exists, bytes, data]: the file at the path, and the bits
             \* that were handed to the writer of its bytes
    origin,  \* what wrote the file: "none", "save", "stream", "corrupted"
    saved,   \* the volume handed to save (EmptyVolume when none was)
    ld,      \* the locals and position of a running load
    cd,      \* the last call of the codec and its result
    p2       \* the locals and position of a running pow2_roof

vars == <<build, file, origin, saved, ld, cd, p2>>

(***************************************************************************)
(* Inputs                                                                  *)
(***************************************************************************)
Resolutions ==
    {r \in (1..MaxDim) \X (1..MaxDim) \X (1..MaxDim) :
        r[1] * r[2] * r[3] <= MaxCells}

\* every volume of every small resolution
SmallVolumes ==
    UNION {{[res |-> r, cells |-> s] :
               s \in SUBSET Box(0, r[1], 0, r[2], 0, r[3])} : r \in Resolutions}

\* the resolution (3,5,2) of the specification's example, sparsely filled or
\* all true
ExampleResolution == <<3, 5, 2>>

ExampleVolumes ==
    {[res |-> ExampleResolution, cells |-> s] :
        s \in SUBSET {<<0, 0, 0>>, <<2, 4, 1>>}}
    \cup {[res |-> ExampleResolution, cells |-> Box(0, 3, 0, 5, 0, 2)]}

\* the power-of-two cubes of side 2 with one or two true cells, and all true
CubeVolumes ==
    {[res |-> <<2, 2, 2>>, cells |-> s] :
        s \in {{}, {<<0, 0, 0>>}, {<<1, 1, 1>>}, {<<0, 1, 0>>, <<1, 0, 1>>},
               Box(0, 2, 0, 2, 0, 2)}}

Volumes == SmallVolumes \cup ExampleVolumes \cup CubeVolumes

\* one axis longer than 2^RECURSION_MAX_DEPTH: the padded cube has side
\* 2^(RECURSION_MAX_DEPTH + 1)
DeepResolution == <<Pow2(RECURSION_MAX_DEPTH) + 1, 1, 1>>

DeepVolumes ==
    {[res |-> DeepResolution, cells |-> s] :
        s \in SUBSET {<<0, 0, 0>>, <<Pow2(RECURSION_MAX_DEPTH), 0, 0>>}}

RECURSIVE BitSeqs(_)
BitSeqs(n) ==
    IF n = 0 THEN {<<>>}
    ELSE LET shorter == BitSeqs(n - 1)
         IN  shorter \cup {Append(q, b) : q \in {t \in shorter : Len(t) = n - 1},
                                          b \in {0, 1}}

Tails == BitSeqs(MaxTail)

Ones(k) == [i \in 1..k |-> 1]

\* hand-made encodings: a run of branch tokens and a short tail
RawEncodings == {Ones(k) \o t : k \in 0..MaxOnes, t \in Tails}

RawResolutions == {<<1, 1, 1>>, <<2, 1, 2>>}

\* hand-made encodings for DeepResolution: leaves of value false only, short
\* or behind a run of branch tokens around RECURSION_MAX_DEPTH
DeepEncodings ==
    {<<>>, <<0>>, <<0, 0>>}
    \cup {Ones(k) \o t : k \in (RECURSION_MAX_DEPTH - 1)..MaxOnes,
                         t \in {<<>>, <<0, 0>>}}

\* bit sequences of every length 1..MaxRun for the packing: 1, 0, 1, 0, ...
Alternating(k) == [i \in 1..k |-> i % 2]

StreamRuns == {Alternating(k) : k \in 1..MaxRun}

\* resolutions handed to stream_data_as_file_bytes directly
StreamAxes == {1, 2, MAX_RESOLUTION + 1}

(***************************************************************************)
(* Initial state                                                           *)
(***************************************************************************)
NoFile == [exists |-> FALSE, bytes |-> <<>>, data |-> <<>>]

ld_idle ==
    [pc |-> "idle", pos |-> 0, meta_buffer |-> <<>>, padding_length |-> 0,
     is_padded |-> FALSE, res |-> <<>>, data_length |-> <<>>,
     encoding |-> <<>>, out |-> EmptyVolume, err |-> "none",
     decode_called |-> FALSE]

cd_idle ==
    [op |-> "none", src |-> EmptyVolume, res |-> <<0, 0, 0>>, enc |-> <<>>,
     kind |-> "none", vol |-> EmptyVolume, cube |-> {}, err |-> "none",
     end_idx |-> 0,
     deepest |-> 0, oob |-> FALSE]

p2_idle ==
    [pc |-> "idle", arg |-> 0, number |-> 0, shift |-> 0, val |-> 0, ret |-> 0]

Init ==
    /\ build \in [char_signed : BOOLEAN, ndebug : BOOLEAN]
    /\ file = NoFile
    /\ origin = "none"
    /\ saved = EmptyVolume
    /\ ld = ld_idle
    /\ cd = cd_idle
    /\ p2 = p2_idle

(***************************************************************************)
(* save and the direct use of the writer (io.cpp 20-90)                    *)
(***************************************************************************)
\* save(filename, data): a no-op for an empty volume
save(data) ==
    /\ ld.pc = "idle"
    /\ ~file.exists
    /\ IF size(data) = 0
       THEN UNCHANGED <<file, origin, saved>>
       ELSE LET padded_data  == pad_to_cube(data)
                encoded_data == encode(padded_data)
                resolution   == data.res
            IN  IF encoded_data.err # "none"
                THEN UNCHANGED <<file, origin, saved>>
                ELSE /\ file' = [exists |-> TRUE,
                                 bytes  |-> stream_data_as_file_bytes(
                                                encoded_data.bits, resolution,
                                                size(padded_data) > size(data)),
                                 data   |-> encoded_data.bits]
                     /\ origin' = "save"
                     /\ saved' = data
    /\ UNCHANGED <<build, ld, cd, p2>>

\* stream_data_as_file_bytes called by another writer with its own data
Stream(data, resolution, padded) ==
    /\ ld.pc = "idle"
    /\ ~file.exists
    /\ file' = [exists |-> TRUE,
                bytes  |-> stream_data_as_file_bytes(data, resolution, padded),
                data   |-> data]
    /\ origin' = "stream"
    /\ UNCHANGED <<build, saved, ld, cd, p2>>

\* a byte of the signature is damaged on disk
CorruptSignature(k) ==
    /\ ld.pc = "idle"
    /\ file.exists
    /\ origin \in {"save", "stream"}
    /\ file' = [file EXCEPT !.bytes[k] = (@ + 1) % 256]
    /\ origin' = "corrupted"
    /\ UNCHANGED <<build, saved, ld, cd, p2>>

\* the file is removed and the next call starts afresh
RemoveFile ==
    /\ ld.pc \in {"done", "failed", "aborted", "undefined"}
    /\ file' = NoFile
    /\ origin' = "none"
    /\ saved' = EmptyVolume
    /\ ld' = ld_idle
    /\ UNCHANGED <<build, cd, p2>>

(***************************************************************************)
(* load (io.cpp 101-150), one action per stage                             *)
(***************************************************************************)
LoadFail(err) == [ld EXCEPT !.pc = "failed", !.err = err]

\* std::ifstream file_in(filename): throws when the file cannot be opened
LoadOpen ==
    /\ ld.pc = "idle"
    /\ ld' = IF file.exists THEN [ld EXCEPT !.pc = "signature"]
             ELSE LoadFail("IOError")
    /\ UNCHANGED <<build, file, origin, saved, cd, p2>>

\* read(sign_buffer, 5) and memcmp
LoadSignature ==
    /\ ld.pc = "signature"
    /\ LET sign_buffer == SubSeq(file.bytes, 1, 5)
       IN  ld' = IF sign_buffer # SIGNATURE
                 THEN [LoadFail("FormatError: signature") EXCEPT !.pos = 5]
                 ELSE [ld EXCEPT !.pc = "metadata", !.pos = 5]
    /\ UNCHANGED <<build, file, origin, saved, cd, p2>>

\* read(meta_buffer, 17), the flags, the resolution and its bound
LoadMetadata ==
    /\ ld.pc = "metadata"
    /\ LET meta_buffer    == SubSeq(file.bytes, 6, 22)
           padding_length == padding_length_of(meta_buffer[1], build.char_signed)
           is_padded      == is_padded_of(meta_buffer[1], build.char_signed)
           x_res == pack_chars(SubSeq(meta_buffer, 2, 5), build.char_signed)
           y_res == IF ~is_padded THEN x_res
                    ELSE pack_chars(SubSeq(meta_buffer, 6, 9), build.char_signed)
           z_res == IF ~is_padded THEN x_res
                    ELSE pack_chars(SubSeq(meta_buffer, 10, 13),
                                    build.char_signed)
           read  == [ld EXCEPT !.pos = 22, !.meta_buffer = meta_buffer,
                               !.padding_length = padding_length,
                               !.is_padded = is_padded,
                               !.res = <<x_res, y_res, z_res>>]
       IN  ld' = IF resolution_exceeds(x_res, y_res, z_res)
                 THEN [read EXCEPT !.pc = "failed",
                                   !.err = "FormatError: resolution"]
                 ELSE [read EXCEPT !.pc = "payload"]
    /\ UNCHANGED <<build, file, origin, saved, cd, p2>>

\* the payload length, read(data_buffer, data_length), the unpacking loop and
\* the erase of the padding.  The behaviour is undefined when the buffer is
\* longer than the rest of the file (its tail stays uninitialised), when char
\* is unsigned and the payload is not empty (the loop "for (char j = 7;
\* j >= 0; j--)" never ends and shifts by 255), and when padding_length is
\* negative or above encoding.size() (erase of an invalid range).
LoadPayload ==
    /\ ld.pc = "payload"
    /\ LET data_length ==
               pack_chars(SubSeq(ld.meta_buffer, 14, 17), build.char_signed)
           known == [ld EXCEPT !.data_length = data_length]
       IN  IF U32Above(data_length, Len(file.bytes) - 22)
           THEN ld' = [known EXCEPT !.pc = "undefined"]
           ELSE LET n           == U32Value(data_length)
                    data_buffer == SubSeq(file.bytes, 23, 22 + n)
                    encoding    == unpack(data_buffer)
                    got         == [known EXCEPT !.pos = 22 + n]
                IN  IF ~build.char_signed /\ n > 0
                    THEN ld' = [got EXCEPT !.pc = "undefined"]
                    ELSE IF \/ ld.padding_length < 0
                            \/ ld.padding_length > Len(encoding)
                    THEN ld' = [got EXCEPT !.pc = "undefined",
                                           !.encoding = encoding]
                    ELSE ld' = [got EXCEPT
                                  !.pc = "decode",
                                  !.encoding = SubSeq(encoding,
                                                      ld.padding_length + 1,
                                                      Len(encoding))]
    /\ UNCHANGED <<build, file, origin, saved, cd, p2>>

\* one outcome of the undefined behaviour: load goes on with some encoding
\* (the others: it crashes or hangs, and the state stays "undefined")
LoadUndefined(garbage) ==
    /\ ld.pc = "undefined"
    /\ ld' = [ld EXCEPT !.pc = "decode", !.encoding = garbage]
    /\ UNCHANGED <<build, file, origin, saved, cd, p2>>

\* decode(encoding, {x_res, y_res, z_res}) and the return
LoadDecode ==
    /\ ld.pc = "decode"
    /\ LET d == decode(ld.encoding,
                       <<U32Value(ld.res[1]), U32Value(ld.res[2]),
                         U32Value(ld.res[3])>>,
                       build.ndebug)
       IN  ld' = [ld EXCEPT
                    !.decode_called = TRUE,
                    !.pc  = IF d.err = "none" THEN "done"
                            ELSE IF d.err = "AssertionFailed" THEN "aborted"
                            ELSE "failed",
                    !.err = d.err,
                    !.out = d.vol]
    /\ UNCHANGED <<build, file, origin, saved, cd, p2>>

(***************************************************************************)
(* Direct calls of the codec                                               *)
(***************************************************************************)
\* encode(pad_to_cube(data))
CallEncode(data) ==
    /\ cd.op = "none"
    /\ IF pad_to_cube_throws(data)
       THEN cd' = [cd_idle EXCEPT !.op = "encode", !.src = data,
                                  !.res = data.res, !.err = "InvalidArgument"]
       ELSE LET e == encode(pad_to_cube(data))
            IN  cd' = [cd_idle EXCEPT !.op = "encode", !.src = data,
                                      !.res = data.res, !.enc = e.bits,
                                      !.kind = "exact", !.err = e.err,
                                      !.deepest = e.deepest]
    /\ UNCHANGED <<build, file, origin, saved, ld, p2>>

DecodeResult(src, encoding, resolution, kind) ==
    LET d == decode(encoding, resolution, build.ndebug)
    IN  [op |-> "decode", src |-> src, res |-> resolution, enc |-> encoding,
         kind |-> kind, vol |-> d.vol, cube |-> d.cube, err |-> d.err,
         end_idx |-> d.end_idx,
         deepest |-> d.deepest, oob |-> d.oob]

\* decode of the first k bits of the last encoding followed by tail, for the
\* resolution of the encoded volume: the encoding itself (k all bits, no
\* tail), a truncated one, or one with trailing bits
CallDecode(k, tail) ==
    /\ cd.op = "encode"
    /\ cd.err = "none"
    /\ k \in 0..Len(cd.enc)
    /\ k < Len(cd.enc) => tail = <<>>
    /\ cd' = DecodeResult(cd.src, SubSeq(cd.enc, 1, k) \o tail, cd.res,
                          IF k < Len(cd.enc) THEN "truncated"
                          ELSE IF tail # <<>> THEN "extended"
                          ELSE "exact")
    /\ UNCHANGED <<build, file, origin, saved, ld, p2>>

\* decode of a hand-made encoding
CallDecodeRaw(encoding, resolution) ==
    /\ cd.op = "none"
    /\ cd' = DecodeResult(EmptyVolume, encoding, resolution, "raw")
    /\ UNCHANGED <<build, file, origin, saved, ld, p2>>

CallReturn ==
    /\ cd.op # "none"
    /\ cd' = cd_idle
    /\ UNCHANGED <<build, file, origin, saved, ld, p2>>

(***************************************************************************)
(* pow2_roof, one action per step of its loop (conversion.cpp 20-31)       *)
(***************************************************************************)
Pow2Call(n) ==
    /\ p2.pc = "idle"
    /\ p2' = [p2_idle EXCEPT !.pc = "test", !.arg = n, !.number = n]
    /\ UNCHANGED <<build, file, origin, saved, ld, cd>>

\* if (!(number & (number - 1))) return number;
Pow2Test ==
    /\ p2.pc = "test"
    /\ p2' = IF pow2_is_exact(p2.number)
             THEN [p2 EXCEPT !.pc = "returned", !.ret = p2.number]
             ELSE [p2 EXCEPT !.pc = "loop", !.shift = 1, !.val = 0]
    /\ UNCHANGED <<build, file, origin, saved, ld, cd>>

\* do { val = number; number |= (number >> shift); shift *= 2; }
\* while (number > val);
Pow2Iterate ==
    /\ p2.pc = "loop"
    /\ LET val    == p2.number
           number == pow2_smear(p2.number, p2.shift)
       IN  p2' = [p2 EXCEPT !.val = val, !.number = number,
                            !.shift = p2.shift * 2,
                            !.pc = IF number > val THEN "loop" ELSE "exit"]
    /\ UNCHANGED <<build, file, origin, saved, ld, cd>>

\* return val + 1;
Pow2Exit ==
    /\ p2.pc = "exit"
    /\ p2' = [p2 EXCEPT !.pc = "returned", !.ret = p2.val + 1]
    /\ UNCHANGED <<build, file, origin, saved, ld, cd>>

Pow2Return ==
    /\ p2.pc = "returned"
    /\ p2' = p2_idle
    /\ UNCHANGED <<build, file, origin, saved, ld, cd>>

(***************************************************************************)
(* Specifications                                                          *)
(***************************************************************************)
\* the container: save, foreign and damaged files, load
Next ==
    \/ \E data \in Volumes \cup {EmptyVolume} : save(data)
    \/ \E data \in Tails, resolution \in StreamAxes \X StreamAxes \X StreamAxes,
          padded \in BOOLEAN : Stream(data, resolution, padded)
    \/ \E data \in StreamRuns : Stream(data, <<2, 2, 2>>, FALSE)
    \/ \E k \in 1..5 : CorruptSignature(k)
    \/ RemoveFile
    \/ LoadOpen
    \/ LoadSignature
    \/ LoadMetadata
    \/ LoadPayload
    \/ \E garbage \in Tails : LoadUndefined(garbage)
    \/ LoadDecode

Spec == Init /\ [][Next]_vars

\* the codec called directly
NextCodec ==
    \/ \E data \in Volumes \cup DeepVolumes \cup {EmptyVolume} : CallEncode(data)
    \/ \E k \in 0..Len(cd.enc), tail \in Tails : CallDecode(k, tail)
    \/ \E encoding \in RawEncodings, resolution \in RawResolutions :
          CallDecodeRaw(encoding, resolution)
    \/ \E encoding \in DeepEncodings : CallDecodeRaw(encoding, DeepResolution)
    \/ CallReturn

SpecCodec == Init /\ [][NextCodec]_vars

\* pow2_roof run step by step
NextPow2 ==
    \/ \E n \in 1..MaxNumber : Pow2Call(n)
    \/ Pow2Test
    \/ Pow2Iterate
    \/ Pow2Exit
    \/ Pow2Return

SpecPow2 == Init /\ [][NextPow2]_vars

(***************************************************************************)
(* Properties                                                              *)
(***************************************************************************)
\* n is a power of two (stated without the bit tricks of pow2_roof)
IsPow2(n) == \E k \in 0..30 : n = Pow2(k)

\* the uint32_t stored least significant byte first at bytes[at .. at + 3]
FieldAt(bytes, at) ==
    bytes[at] + 256 * bytes[at + 1] + 65536 * bytes[at + 2]
    + 16777216 * bytes[at + 3]

\* the three resolution fields of the header (file offsets 6, 10 and 14)
HeaderResolution(bytes) ==
    << FieldAt(bytes, 7), FieldAt(bytes, 11), FieldAt(bytes, 15) >>

\* bit 4 of the flags byte (file offset 5)
HeaderPadded(bytes) == (bytes[6] \div 16) % 2 = 1

\* the side of the cube a resolution is padded to
CubeSide(res) == max_res_pow2_roof(res[1], res[2], res[3])

IsPow2Cube(res) == res = <<CubeSide(res), CubeSide(res), CubeSide(res)>>

AllFalse(volume) == volume.cells = {}

\* every cell is true: as many true cells as cells
AllTrue(volume) == Cardinality(volume.cells) = size(volume)

\* the implied octree depth of a resolution exceeds RECURSION_MAX_DEPTH
IsDeep(res) == CubeSide(res) > Pow2(RECURSION_MAX_DEPTH)

----------------------------------------------------------------------------
\* C1: load(save(V)) returns V, resolution and cells, for every volume V
\* with all dimensions >= 1: once save has written the file, load neither
\* fails, aborts nor runs into undefined behaviour, and what it returns is V.
C1_FileRoundTrip ==
    origin = "save" =>
        /\ ld.pc \notin {"failed", "aborted", "undefined"}
        /\ ld.pc = "done" => ld.out = saved

\* the 1x1x1 volume {{{true}}} was saved and load has left defined behaviour
C1_FailingLoad ==
    /\ origin = "save"
    /\ saved = [res |-> <<1, 1, 1>>, cells |-> {<<0, 0, 0>>}]
    /\ ld.pc = "undefined"

----------------------------------------------------------------------------
\* C2: for every volume V of resolution (x, y, z) that encode accepts,
\* decode(encode(pad_to_cube(V)), (x, y, z)) returns V cell for cell with
\* resolution (x, y, z); the decoder visits the octants in the order the
\* encoder emitted them; the cube decoded before the final cut is the padded
\* cube, so the cut removes false padding only.
C2_CodecRoundTrip ==
    (cd.op = "decode" /\ cd.kind = "exact") =>
        /\ cd.err = "none"
        /\ cd.vol = cd.src
        /\ cd.vol.res = cd.res
        /\ cd.cube = pad_to_cube(cd.src).cells
        /\ cd.end_idx = Len(cd.enc)
        /\ LET side == CubeSide(cd.res)
           IN  \A n \in 1..8 :
                  SubSeq(decode_octants(0, side, 0, side, 0, side, 0)[n], 1, 6)
                  = SubSeq(encode_octants(0, side, 0, side, 0, side, 0)[n], 1, 6)

\* the sparse (3,5,2) volume came back from its encoding
C2_RoundTripDone ==
    /\ cd.op = "decode"
    /\ cd.kind = "exact"
    /\ cd.src = [res |-> ExampleResolution,
                 cells |-> {<<0, 0, 0>>, <<2, 4, 1>>}]
    /\ cd.vol = cd.src
    /\ Len(cd.enc) > 2

----------------------------------------------------------------------------
\* C3: pow2_roof(n) is the smallest power of two >= n for every n >= 1 and is
\* n itself when n is a power of two (5 -> 8, 16 -> 16, 17 -> 32); the loop
\* exits only with val of the form 2^k - 1.
C3_Pow2Roof ==
    /\ p2.pc = "returned" =>
          /\ IsPow2(p2.ret)
          /\ p2.ret >= p2.arg
          /\ p2.ret < 2 * p2.arg
          /\ IsPow2(p2.arg) => p2.ret = p2.arg
          /\ p2.ret = pow2_roof(p2.arg)
    /\ p2.pc = "exit" => IsPow2(p2.val + 1)
    /\ p2.pc # "idle" =>
          /\ pow2_roof(5) = 8
          /\ pow2_roof(16) = 16
          /\ pow2_roof(17) = 32

\* pow2_roof(17) returned 32 through the loop
C3_Returned ==
    /\ p2.pc = "returned"
    /\ p2.arg = 17
    /\ p2.ret = 32
    /\ p2.val = 31

----------------------------------------------------------------------------
\* C4 as stated: a homogeneous volume of any size, all true or all false,
\* encodes to exactly 2 bits through pad_to_cube then encode.
C4_HomogeneousTwoBits ==
    (cd.op = "encode" /\ size(cd.src) # 0
     /\ (AllFalse(cd.src) \/ AllTrue(cd.src))) =>
        /\ cd.err = "none"
        /\ Len(cd.enc) = 2

\* C4 amended: an all-false volume of any size, and an all-true volume that
\* is already a power-of-two cube, encode to the leaf token 0 followed by
\* the value; an all-true volume that pad_to_cube has to pad gets false
\* padding, is no longer homogeneous, and encodes to more than 2 bits.
C4_HomogeneousAfterPadding ==
    (cd.op = "encode" /\ size(cd.src) # 0) =>
        /\ AllFalse(cd.src) => (cd.err = "none" /\ cd.enc = <<0, 0>>)
        /\ (AllTrue(cd.src) /\ IsPow2Cube(cd.res)) =>
              (cd.err = "none" /\ cd.enc = <<0, 1>>)
        /\ (AllTrue(cd.src) /\ ~IsPow2Cube(cd.res) /\ cd.err = "none") =>
              Len(cd.enc) > 2

\* the all-true (3,5,2) volume was encoded to more than 2 bits
C4_AllTruePadded ==
    /\ cd.op = "encode"
    /\ cd.res = ExampleResolution
    /\ AllTrue(cd.src)
    /\ cd.err = "none"
    /\ Len(cd.enc) > 2

----------------------------------------------------------------------------
\* C5 as stated: when save is given a volume that is not a power-of-two
\* cube, the resolution fields of the header hold the padded cube side on
\* every axis and the padded flag is set.
C5_HeaderHoldsCubeSide ==
    (origin = "save" /\ file.exists /\ ~IsPow2Cube(saved.res)) =>
        /\ HeaderPadded(file.bytes)
        /\ HeaderResolution(file.bytes)
           = <<CubeSide(saved.res), CubeSide(saved.res), CubeSide(saved.res)>>

\* C5 amended: when save is given a volume that is not a power-of-two cube,
\* the padded flag is set and the resolution fields of the header hold the
\* resolution of the volume as given, (3,5,2) in the example.
C5_HeaderHoldsResolution ==
    (origin = "save" /\ file.exists /\ ~IsPow2Cube(saved.res)) =>
        /\ HeaderPadded(file.bytes)
        /\ HeaderResolution(file.bytes) = saved.res

\* a (3,5,2) volume was saved with (3,5,2) in the header
C5_ExampleSaved ==
    /\ origin = "save"
    /\ file.exists
    /\ saved.res = ExampleResolution
    /\ saved.cells = {<<0, 0, 0>>, <<2, 4, 1>>}
    /\ HeaderResolution(file.bytes) = ExampleResolution
    /\ HeaderPadded(file.bytes)

----------------------------------------------------------------------------
\* C6 as stated: in every container written by save whose padded flag is
\* clear, the y and z resolution fields are equal to the x field.
C6_UnpaddedFieldsRepeatX ==
    (origin = "save" /\ file.exists /\ ~HeaderPadded(file.bytes)) =>
        /\ HeaderResolution(file.bytes)[2] = HeaderResolution(file.bytes)[1]
        /\ HeaderResolution(file.bytes)[3] = HeaderResolution(file.bytes)[1]

\* C6 amended: in every container the writer produces with the padded flag
\* clear, the y and z resolution fields are 0; save clears the flag exactly
\* for a power-of-two cube and stores its side in the x field; it is load
\* that takes the x field for y and z when the flag it read is clear.
C6_UnpaddedFieldsZero ==
    /\ (origin \in {"save", "stream"} /\ file.exists
        /\ ~HeaderPadded(file.bytes)) =>
          /\ HeaderResolution(file.bytes)[2] = 0
          /\ HeaderResolution(file.bytes)[3] = 0
    /\ (origin = "save" /\ file.exists) =>
          /\ HeaderResolution(file.bytes)[1] = saved.res[1]
          /\ HeaderPadded(file.bytes) <=> ~IsPow2Cube(saved.res)
    /\ (ld.res # <<>> /\ ~ld.is_padded) =>
          (ld.res[2] = ld.res[1] /\ ld.res[3] = ld.res[1])

\* a 2x2x2 volume was saved with the flag clear and load has read its header
C6_CubeSaved ==
    /\ origin = "save"
    /\ file.exists
    /\ saved.res = <<2, 2, 2>>
    /\ ~HeaderPadded(file.bytes)
    /\ HeaderResolution(file.bytes) = <<2, 0, 0>>
    /\ ld.res # <<>>
    /\ ~ld.is_padded

----------------------------------------------------------------------------
\* the bits run out before the tree the tokens describe is complete: pending
\* subtrees are still to be read from 1-based position i on
RECURSIVE RunsOut(_, _, _)
RunsOut(encoding, i, pending) ==
    IF pending = 0 THEN FALSE
    ELSE IF i > Len(encoding) THEN TRUE
    ELSE IF encoding[i] = 1 THEN RunsOut(encoding, i + 1, pending + 7)
    ELSE IF i + 1 > Len(encoding) THEN TRUE
    ELSE RunsOut(encoding, i + 2, pending - 1)

LacksBits(encoding) == RunsOut(encoding, 1, 1)

\* C7 as stated: decode of a sequence that has fewer bits than its token
\* structure requires (a strict prefix of an encoding, the empty sequence)
\* fails with OutOfRange, and decode_recursive never reads encoding[i] with
\* i >= encoding.size().
C7_TruncatedOutOfRange ==
    cd.op = "decode" =>
        /\ ~cd.oob
        /\ LacksBits(cd.enc) => cd.err = "OutOfRange"

\* C7 amended: decode of such a sequence never returns a volume and never
\* reads encoding[i] with i >= encoding.size(); it fails with OutOfRange,
\* always so for a strict prefix of an encoding that encode produced, unless
\* the branch tokens at hand already nest deeper than RECURSION_MAX_DEPTH:
\* the depth check comes first and the failure is the recursion limit.
C7_TruncatedFails ==
    cd.op = "decode" =>
        /\ ~cd.oob
        /\ cd.kind = "truncated" => LacksBits(cd.enc)
        /\ LacksBits(cd.enc) =>
              /\ cd.err \in {"OutOfRange", "RecursionLimit"}
              /\ cd.kind = "truncated" => cd.err = "OutOfRange"
              /\ cd.err = "RecursionLimit" =>
                    cd.deepest = RECURSION_MAX_DEPTH
              /\ cd.err = "OutOfRange" => cd.end_idx >= Len(cd.enc) - 1
        /\ (cd.err = "OutOfRange") => LacksBits(cd.enc)

\* a strict, non-empty prefix of the encoding of a (3,5,2) volume was refused
C7_PrefixRefused ==
    /\ cd.op = "decode"
    /\ cd.kind = "truncated"
    /\ cd.res = ExampleResolution
    /\ Len(cd.enc) > 2
    /\ cd.err = "OutOfRange"

----------------------------------------------------------------------------
\* C8: when the root call of decode_recursive has returned and the cursor is
\* not the length of the encoding, decode gives the caller an error and no
\* volume.
C8_TrailingBitsRefused ==
    (cd.op = "decode" /\ cd.err \notin {"OutOfRange", "RecursionLimit"}
     /\ cd.end_idx # Len(cd.enc)) =>
        cd.err # "none"

\* decode returned a volume for an encoding followed by trailing bits, in a
\* build with NDEBUG
C8_TrailingBitsAccepted ==
    /\ cd.op = "decode"
    /\ cd.kind = "extended"
    /\ build.ndebug
    /\ cd.err = "none"
    /\ cd.end_idx < Len(cd.enc)
    /\ cd.vol = cd.src

----------------------------------------------------------------------------
\* the aligned block of side b that holds a cell
Block(c, b) ==
    {<<b * (c[1] \div b) + i, b * (c[2] \div b) + j, b * (c[3] \div b) + k>> :
        i \in 0..(b - 1), j \in 0..(b - 1), k \in 0..(b - 1)}

\* some box of depth RECURSION_MAX_DEPTH of the padded cube holds a true and
\* a false cell (for a volume whose implied depth exceeds the cap)
HasMixedBlock(volume) ==
    LET b == CubeSide(volume.res) \div Pow2(RECURSION_MAX_DEPTH)
    IN  \E c \in volume.cells : \E d \in Block(c, b) : d \notin volume.cells

\* the number of leading branch tokens
RECURSIVE LeadingOnes(_)
LeadingOnes(encoding) ==
    IF encoding = <<>> \/ Head(encoding) = 0 THEN 0
    ELSE 1 + LeadingOnes(Tail(encoding))

----------------------------------------------------------------------------
\* C10: load compares the signature first and a mismatch fails with nothing
\* read beyond the 5 signature bytes; then it decodes the flags and the
\* resolution, and an axis above MAX_RESOLUTION fails with nothing read
\* beyond the 22-byte header, the payload length not taken, no payload
\* unpacked and decode not called; a file that fails either check never
\* reaches a later stage.
C10_ValidationOrder ==
    /\ ld.err = "FormatError: signature" =>
          /\ ld.pc = "failed"
          /\ ld.pos = 5
          /\ ld.meta_buffer = <<>>
          /\ ld.res = <<>>
    /\ ld.err = "FormatError: resolution" =>
          /\ ld.pc = "failed"
          /\ ld.pos = 22
          /\ SubSeq(file.bytes, 1, 5) = SIGNATURE
    /\ ld.pc = "failed" /\ ld.err \in {"FormatError: signature",
                                       "FormatError: resolution"} =>
          /\ ld.data_length = <<>>
          /\ ld.encoding = <<>>
          /\ ~ld.decode_called
    /\ ld.pc \in {"metadata", "payload", "undefined", "decode", "done",
                  "aborted"} \/ ld.decode_called =>
          SubSeq(file.bytes, 1, 5) = SIGNATURE
    /\ ld.pc \in {"payload", "undefined", "decode", "done", "aborted"}
       \/ ld.decode_called \/ ld.data_length # <<>> =>
          \A i \in 1..3 : ~U32Above(ld.res[i], MAX_RESOLUTION)
    /\ ld.pos > 22 => ld.data_length # <<>>

\* load refused a file whose z axis alone is above MAX_RESOLUTION
C10_ResolutionRefused ==
    /\ ld.pc = "failed"
    /\ ld.err = "FormatError: resolution"
    /\ HeaderResolution(file.bytes) = <<1, 1, MAX_RESOLUTION + 1>>
    /\ ld.pos = 22

----------------------------------------------------------------------------
\* (8 - n mod 8) mod 8
PadLen(n) == (8 - (n % 8)) % 8

\* the payload of a container: the bytes behind the 22-byte header
Payload(bytes) == SubSeq(bytes, 23, Len(bytes))

\* C11: for every bit sequence B of length n >= 1 handed to
\* stream_data_as_file_bytes, the writer stores pad_len = (8 - n mod 8) mod 8
\* in bits 7-5 of the flags byte, writes (n + pad_len) / 8 payload bytes that
\* hold pad_len zero bits and then B, most significant bit first, and records
\* that count as the payload length; load reads the same pad_len and the same
\* payload length back, and hands decode exactly B.
C11_PackingRoundTrip ==
    (origin \in {"save", "stream"} /\ file.exists /\ Len(file.data) >= 1) =>
        LET B       == file.data
            pad_len == PadLen(Len(B))
            count   == (Len(B) + pad_len) \div 8
        IN  /\ file.bytes[6] \div 32 = pad_len
            /\ FieldAt(file.bytes, 19) = count
            /\ Len(Payload(file.bytes)) = count
            /\ unpack(Payload(file.bytes)) = [i \in 1..pad_len |-> 0] \o B
            /\ ld.meta_buffer # <<>> => ld.padding_length = pad_len
            /\ ld.data_length # <<>> => ld.data_length = LE32(count)
            /\ ld.pc # "undefined"
            /\ ld.pc = "decode" => ld.encoding = B

\* the writer packed 3 bits behind 5 pad bits, and load, on a build whose
\* char is signed, read the pad length back as -3 and left defined behaviour
C11_PadLengthMisread ==
    /\ origin = "stream"
    /\ file.data = Alternating(3)
    /\ file.bytes[6] \div 32 = 5
    /\ build.char_signed
    /\ ld.padding_length = -3
    /\ ld.pc = "undefined"

====
